---- MODULE Spec2Model ----
(***************************************************************************)
(* Model of the chat client of the stock dashboard                         *)
(* (src/frontend/app/search/page.tsx): the bounded retry wrapper           *)
(* exponentialBackoffFetch, callGeminiAPI and ChatPage.handleSubmit.       *)
(*                                                                         *)
(* Texts are sequences of strings (tokens or characters) so that           *)
(* String.trim, String.includes and template literals are computed.        *)
(***************************************************************************)
EXTENDS Integers, Sequences, FiniteSets, TLC

VARIABLES
    bf,           \* call frame of exponentialBackoffFetch
    outcomes,     \* log of the request outcomes of a direct call of the wrapper
    chatHistory,  \* ChatPage state: the transcript
    input,        \* ChatPage state: the input box
    isLoading,    \* ChatPage state: the loading flag
    hs,           \* frame of the running handleSubmit (closure values)
    cg,           \* frame of the running callGeminiAPI
    tp,           \* TrendingPageClient: its state and its fetchData call
    sp,           \* SingleStockSearchPage: its state and its handleSearch calls
    sd            \* StockDetails: its state and its fetchDetails calls

bfVars == <<bf, outcomes>>
chatVars == <<chatHistory, input, isLoading, hs, cg>>
pageVars == <<tp, sp, sd>>
vars == <<bf, outcomes, chatHistory, input, isLoading, hs, cg, tp, sp, sd>>

----------------------------------------------------------------------------
(* Bounds of the model *)

MaxRetriesBound == 5     \* largest maxRetries a direct call is given
MaxSubmits == 2          \* accepted chat submits per behaviour
MaxStocks == 7           \* longest list the trending endpoint returns
MaxShortList == 3        \* longest list enumerated in every order
MaxDetailFetches == 2    \* fetchDetails calls of one StockDetails
MaxSearches == 2         \* handleSearch calls that issue a request
MaxHistory == 3          \* entries of the session history of the trending page

(* Program constants *)

DefaultMaxRetries == 5   \* maxRetries: number = 5
InitialDelay == 1000     \* let delay = 1000
TooManyRequests == 429   \* response.status === 429
TopCount == 5            \* stocks.slice(0, 5), stocks.slice(5)

----------------------------------------------------------------------------
(* Outcomes of one fetch(): a thrown network error, or a response with a   *)
(* status; response.ok is true exactly for the 2xx statuses.               *)

NetworkError == [thrown |-> TRUE, status |-> 0]

HttpResponse(s) == [thrown |-> FALSE, status |-> s]

Statuses == {200, TooManyRequests, 500}

Outcomes == {NetworkError} \cup {HttpResponse(s) : s \in Statuses}

ResponseOkAny(o) == ~o.thrown

ResponseOk(o) == ~o.thrown /\ o.status \in 200..299

----------------------------------------------------------------------------
(* exponentialBackoffFetch *)

IdleFrame ==
    [pc |-> "idle", maxRetries |-> 0, attempt |-> 0, delay |-> 0,
     requests |-> 0, waits |-> <<>>, error |-> "none"]

\* let delay = 1000; attempt = 0
EntryFrame(m) ==
    [pc |-> "loop", maxRetries |-> m, attempt |-> 0, delay |-> InitialDelay,
     requests |-> 0, waits |-> <<>>, error |-> "none"]

LoopGuardOffByOne(attempt, m) == attempt <= m

\* for (...; attempt < maxRetries; ...)
LoopGuard(attempt, m) == attempt < m

AttemptsRemainOnLast(attempt, m) == attempt < m

AttemptsRemainTooFew(attempt, m) == attempt < m - 2

\* attempt < maxRetries - 1
AttemptsRemain(attempt, m) == attempt < m - 1

\* if (response.status === 429 && attempt < maxRetries - 1)
RetryOnStatus(o, attempt, m) ==
    o.status = TooManyRequests /\ AttemptsRemain(attempt, m)

CatchNeverRetries(attempt, m) == FALSE

\* catch (error) { if (attempt < maxRetries - 1) ...
CatchRetries(attempt, m) == AttemptsRemain(attempt, m)

LinearDelay(d) == d + InitialDelay

ConstantDelay(d) == d

\* delay *= 2
NextDelay(d) == d * 2

\* await new Promise(resolve => setTimeout(resolve, delay))
StartWait(f) ==
    [f EXCEPT !.pc = "waiting", !.waits = Append(@, f.delay)]

\* the catch block: retry after a wait, or rethrow
Catch(f, err) ==
    IF CatchRetries(f.attempt, f.maxRetries)
    THEN StartWait(f)
    ELSE [f EXCEPT !.pc = "failed", !.error = err]

\* loop test, then fetch(url, options), or the throw after the loop
LoopStep(f) ==
    IF LoopGuard(f.attempt, f.maxRetries)
    THEN [f EXCEPT !.pc = "fetching", !.requests = @ + 1]
    ELSE [f EXCEPT !.pc = "failed", !.error = "Failed to fetch after all retries."]

\* the body of the try block once fetch() has settled with outcome o
Settle(f, o) ==
    IF o.thrown THEN Catch(f, "Failed to fetch")
    ELSE IF ResponseOk(o) THEN [f EXCEPT !.pc = "returned"]
    ELSE IF RetryOnStatus(o, f.attempt, f.maxRetries) THEN StartWait(f)
    ELSE Catch(f, "API error")

\* the timer fires: delay *= 2; continue (attempt++)
WaitDone(f) ==
    [f EXCEPT !.pc = "loop", !.delay = NextDelay(@), !.attempt = @ + 1]

Terminal(f) == f.pc \in {"returned", "failed"}

\* the frame a call reaches from f on the request outcomes outs
RECURSIVE Run(_, _)
Run(f, outs) ==
    IF f.pc = "loop" THEN Run(LoopStep(f), outs)
    ELSE IF f.pc = "waiting" THEN Run(WaitDone(f), outs)
    ELSE IF f.pc = "fetching" /\ outs # <<>> THEN Run(Settle(f, Head(outs)), Tail(outs))
    ELSE f

----------------------------------------------------------------------------
(* Actions of the wrapper *)

\* a direct call exponentialBackoffFetch(url, options, m)
BF_Call(m) ==
    /\ bf.pc = "idle"
    /\ bf' = EntryFrame(m)
    /\ outcomes' = <<>>
    /\ UNCHANGED <<chatVars, pageVars>>

BF_Loop ==
    /\ bf.pc = "loop"
    /\ bf' = LoopStep(bf)
    /\ UNCHANGED <<outcomes, chatVars, pageVars>>

\* fetch() settles with outcome o; the outcomes of a direct call are logged
BF_Settle(o) ==
    /\ bf.pc = "fetching"
    /\ bf' = Settle(bf, o)
    /\ outcomes' = IF cg.pc = "idle" THEN Append(outcomes, o) ELSE outcomes
    /\ UNCHANGED <<chatVars, pageVars>>

BF_WaitDone ==
    /\ bf.pc = "waiting"
    /\ bf' = WaitDone(bf)
    /\ UNCHANGED <<outcomes, chatVars, pageVars>>

BF_Step == BF_Loop \/ (\E o \in Outcomes : BF_Settle(o)) \/ BF_WaitDone

----------------------------------------------------------------------------
(* Texts: String.trim and String.includes *)

IsSpace(c) == c = " "

RECURSIVE TrimStart(_)
TrimStart(s) ==
    IF s # <<>> /\ IsSpace(Head(s)) THEN TrimStart(Tail(s)) ELSE s

RECURSIVE TrimEnd(_)
TrimEnd(s) ==
    IF s # <<>> /\ IsSpace(s[Len(s)]) THEN TrimEnd(SubSeq(s, 1, Len(s) - 1)) ELSE s

\* input.trim()
Trim(s) == TrimEnd(TrimStart(s))

\* hay.includes(needle)
Includes(hay, needle) ==
    \E i \in 0..(Len(hay) - Len(needle)) :
        SubSeq(hay, i + 1, i + Len(needle)) = needle

----------------------------------------------------------------------------
(* callGeminiAPI *)

Message(role, text, hasSources, sources) ==
    [role |-> role, text |-> text, hasSources |-> hasSources, sources |-> sources]

ContentsQueryTwice(history, currentQuery) ==
    [i \in 1..Len(history) |->
        [role |-> IF history[i].role = "model" THEN "model" ELSE "user",
         text |-> history[i].text]]
    \o <<[role |-> "user", text |-> currentQuery],
         [role |-> "user", text |-> currentQuery]>>

\* chatHistory.map(...) followed by contents.push({role: 'user', ...})
Contents(history, currentQuery) ==
    [i \in 1..Len(history) |->
        [role |-> IF history[i].role = "model" THEN "model" ELSE "user",
         text |-> history[i].text]]
    \o <<[role |-> "user", text |-> currentQuery]>>

\* Bodies of a successful response. parsed: response.json() resolves;
\* isObject: the parsed value is not null. A candidate carries its first
\* part's text, its finishMessage and its groundingAttributions; an absent
\* or empty string is the empty sequence (both are falsy).
Candidate(text, finishMessage, grounded, attributions) ==
    [text |-> text, finishMessage |-> finishMessage,
     grounded |-> grounded, attributions |-> attributions]

Body(parsed, isObject, candidates) ==
    [parsed |-> parsed, isObject |-> isObject, candidates |-> candidates]

Attribution(uri, title) == [uri |-> uri, title |-> title]

MalformedNeedle == <<"Malformed", "function", "call">>

Bodies ==
    { Body(FALSE, FALSE, <<>>),
      Body(TRUE, FALSE, <<>>),
      Body(TRUE, TRUE, <<>>),
      Body(TRUE, TRUE, <<Candidate(<<"answer">>, <<"STOP">>, FALSE, <<>>)>>),
      Body(TRUE, TRUE,
           <<Candidate(<<"answer">>, <<>>, TRUE,
                       <<Attribution(<<"u1">>, <<"t1">>),
                         Attribution(<<>>, <<"t2">>),
                         Attribution(<<"u3">>, <<>>),
                         Attribution(<<"u1">>, <<"t4">>)>>)>>),
      Body(TRUE, TRUE,
           <<Candidate(<<>>, <<"Malformed", "function", "call", "x">>, FALSE, <<>>)>>),
      Body(TRUE, TRUE,
           <<Candidate(<<>>, <<"Error", "Malformed", "function", "call">>, TRUE,
                       <<Attribution(<<"u1">>, <<"t1">>)>>)>>),
      Body(TRUE, TRUE,
           <<Candidate(<<>>, <<"Malformed", "call">>, FALSE, <<>>)>>),
      Body(TRUE, TRUE, <<Candidate(<<>>, <<>>, FALSE, <<>>)>>),
      Body(TRUE, TRUE,
           <<Candidate(<<>>, <<"STOP">>, FALSE, <<>>),
             Candidate(<<"second">>, <<>>, FALSE, <<>>)>>) }

ApologyText ==
    <<"Apologies, there was a data processing issue with the API. Please simplify your question and ask again.">>

FallbackText ==
    <<"Sorry, I wasn't able to answer this question. Please try again after some time or rephrase your question.">>

\* `A Network/API error has occurred: ${knownError.message}. Please check ...`
NetworkErrorText(message) ==
    <<"A Network/API error has occurred: ", message,
      ". Please check your network connection and try again.">>

\* .map(attribution => ...).filter(source => source.uri && source.title)
RECURSIVE Sources(_)
Sources(attributions) ==
    IF attributions = <<>> THEN <<>>
    ELSE LET a == Head(attributions) IN
         (IF a.uri # <<>> /\ a.title # <<>> THEN <<a>> ELSE <<>>)
         \o Sources(Tail(attributions))

Resolved(message) == [pc |-> "resolved", message |-> message]

Rejected(error) ==
    [pc |-> "rejected", message |-> Message("model", <<error>>, FALSE, <<>>)]

ErrorTextAlwaysFallback(finishMessage) == FallbackText

\* candidate?.finishMessage?.includes("Malformed function call") ? ... : ...
ErrorText(finishMessage) ==
    IF Includes(finishMessage, MalformedNeedle) THEN ApologyText ELSE FallbackText

CatchRethrows(error) == Rejected(error)

\* catch (error) { ... return { role: 'model', parts: [{ text: `...` }] } }
CatchApiError(error) ==
    Resolved(Message("model", NetworkErrorText(error), FALSE, <<>>))

\* the try block after exponentialBackoffFetch returned: response.json(),
\* result.candidates?.[0], and the two branches on the candidate's text
ParseResponse(body) ==
    IF ~body.parsed THEN CatchApiError("Unexpected token in JSON")
    ELSE IF ~body.isObject THEN CatchApiError("Cannot read properties of null")
    ELSE IF body.candidates # <<>> /\ body.candidates[1].text # <<>>
    THEN LET candidate == body.candidates[1] IN
         Resolved(Message("model", candidate.text, TRUE,
                          IF candidate.grounded
                          THEN Sources(candidate.attributions) ELSE <<>>))
    ELSE Resolved(Message("model",
                          ErrorText(IF body.candidates = <<>> THEN <<>>
                                    ELSE body.candidates[1].finishMessage),
                          FALSE, <<>>))

----------------------------------------------------------------------------
(* ChatPage *)

WelcomeText ==
    <<"Namaste! I am an AI Financial Analyst. I use real-time Google Search to provide you with accurate insights on the stock market, company analysis, and other financial queries. Which stock or financial topic would you like to explore today?">>

\* the welcome effect: setChatHistory([welcomeMessage])
WelcomeMessage == Message("model", WelcomeText, FALSE, <<>>)

IdleSubmit == [pc |-> "idle", chatHistory |-> <<>>, trimmedInput |-> <<>>]

IdleGemini ==
    [pc |-> "idle", contents |-> <<>>, gotResponse |-> FALSE,
     body |-> Body(FALSE, FALSE, <<>>), message |-> WelcomeMessage]

\* what the user can type into the input box
InputValues == {<<>>, <<" ">>, <<"a">>, <<" ", "b", " ">>}

UserMessages(history) == {i \in DOMAIN history : history[i].role = "user"}

\* onChange of the input, which is disabled while isLoading
SetInput(v) ==
    /\ ~isLoading
    /\ input # v
    /\ input' = v
    /\ UNCHANGED <<bf, outcomes, chatHistory, isLoading, hs, cg, pageVars>>

SubmitRejectedOnlyLoading(trimmedInput, loading) == loading

\* if (!trimmedInput || isLoading) return;
SubmitRejected(trimmedInput, loading) == trimmedInput = <<>> \/ loading

\* handleSubmit up to its await: the guard, the three state updates and the
\* call of callGeminiAPI(chatHistory, trimmedInput), which builds the
\* payload and enters exponentialBackoffFetch with the default maxRetries
HandleSubmit ==
    LET trimmedInput == Trim(input) IN
    IF SubmitRejected(trimmedInput, isLoading)
    THEN UNCHANGED vars
    ELSE /\ Cardinality(UserMessages(chatHistory)) < MaxSubmits
         /\ isLoading' = TRUE
         /\ input' = <<>>
         /\ chatHistory' = Append(chatHistory, Message("user", trimmedInput, FALSE, <<>>))
         /\ hs' = [pc |-> "awaiting", chatHistory |-> chatHistory,
                   trimmedInput |-> trimmedInput]
         /\ cg' = [IdleGemini EXCEPT !.pc = "fetching",
                                     !.contents = Contents(chatHistory, trimmedInput)]
         /\ bf' = EntryFrame(DefaultMaxRetries)
         /\ UNCHANGED <<outcomes, pageVars>>

\* exponentialBackoffFetch returned a response: await response.json() and
\* the rest of the try block
CG_Json(body) ==
    /\ cg.pc = "fetching"
    /\ bf.pc = "returned"
    /\ cg' = [cg EXCEPT !.pc = ParseResponse(body).pc,
                        !.gotResponse = TRUE,
                        !.body = body,
                        !.message = ParseResponse(body).message]
    /\ bf' = IdleFrame
    /\ UNCHANGED <<outcomes, chatHistory, input, isLoading, hs, pageVars>>

\* exponentialBackoffFetch threw: the catch block of callGeminiAPI
CG_Catch ==
    /\ cg.pc = "fetching"
    /\ bf.pc = "failed"
    /\ cg' = [cg EXCEPT !.pc = CatchApiError(bf.error).pc,
                        !.message = CatchApiError(bf.error).message]
    /\ bf' = IdleFrame
    /\ UNCHANGED <<outcomes, chatHistory, input, isLoading, hs, pageVars>>

\* handleSubmit after its await: append the model message and clear the
\* loading flag; a rejection of callGeminiAPI ends the handler at the await
HS_Resume ==
    /\ hs.pc = "awaiting"
    /\ cg.pc \in {"resolved", "rejected"}
    /\ IF cg.pc = "resolved"
       THEN /\ chatHistory' = Append(chatHistory, cg.message)
            /\ isLoading' = FALSE
       ELSE UNCHANGED <<chatHistory, isLoading>>
    /\ hs' = IdleSubmit
    /\ cg' = [cg EXCEPT !.pc = "idle"]
    /\ UNCHANGED <<bf, outcomes, input, pageVars>>

----------------------------------------------------------------------------
(* Trending page: getTrendingStocks and TrendingPageClient                 *)
(* (src/frontend/app/trending/page.tsx)                                    *)

TickerPool ==
    <<"RELIANCE", "TCS", "INFY", "HDFCBANK", "SBIN", "ITC", "LT", "WIPRO", "ONGC">>

TrendingStock(ticker) == [ticker |-> ticker]

RankedTrendingStock(ticker, rank) == [ticker |-> ticker, rank |-> rank]

\* selectedStock === null
NoStock == RankedTrendingStock("", 0)

\* the first k stocks of the pool, in pool order
PoolPrefix(k) == [i \in 1..k |-> TrendingStock(TickerPool[i])]

\* every list of at most n stocks over the first three tickers
RECURSIVE ShortLists(_)
ShortLists(n) ==
    IF n = 0 THEN {<<>>}
    ELSE ShortLists(n - 1)
         \cup {Append(l, TrendingStock(TickerPool[i])) :
                  l \in {x \in ShortLists(n - 1) : Len(x) = n - 1}, i \in 1..3}

\* the lists the trending endpoint answers with
StockLists == {PoolPrefix(k) : k \in 0..MaxStocks} \cup ShortLists(MaxShortList)

\* Bodies of GET /api/trending-stocks: parsed: response.json() resolves
ApiResponse(parsed, success, hasResults, results) ==
    [parsed |-> parsed, success |-> success,
     hasResults |-> hasResults, results |-> results]

ApiResponses ==
    {ApiResponse(FALSE, FALSE, FALSE, <<>>)}
    \cup {ApiResponse(TRUE, success, FALSE, <<>>) : success \in BOOLEAN}
    \cup {ApiResponse(TRUE, success, TRUE, results) :
             success \in BOOLEAN, results \in StockLists}

RankOfZeroBased(index) == index

\* rank: index + 1
RankOf(index) == index + 1

\* (result.results || []).map((stock, index) => ({...stock, rank: index + 1}))
RankStocks(body) ==
    LET results == IF body.hasResults THEN body.results ELSE <<>> IN
    [i \in 1..Len(results) |->
        RankedTrendingStock(results[i].ticker, RankOf(i - 1))]

TrendingResolved(stocks, failed) ==
    [pc |-> "resolved", fetched |-> stocks, failed |-> failed]

TrendingCatchRethrows == [pc |-> "rejected", fetched |-> <<>>, failed |-> TRUE]

\* catch (error) { console.error(...); return []; }
TrendingCatch == TrendingResolved(<<>>, TRUE)

\* getTrendingStocks once fetch() has settled with outcome o
TrendingOnResponse(o) ==
    IF o.thrown \/ ~ResponseOk(o) THEN TrendingCatch
    ELSE [pc |-> "json", fetched |-> <<>>, failed |-> FALSE]

\* getTrendingStocks once response.json() has settled with body
TrendingOnJson(body) ==
    IF ~body.parsed \/ ~body.success THEN TrendingCatch
    ELSE TrendingResolved(RankStocks(body), FALSE)

\* event.state.stockTicker of a history entry whose state is null
NoTicker == ""

\* useState defaults, and the mount effect up to its await: fetchData()
\* sets isLoading and getTrendingStocks issues its request. history is the
\* session history from the entry of the page load on, each entry given by
\* the stockTicker of its state; index is the current entry; currentIndex is
\* the state of StockSlideshowClient, mounted while the list is displayed
TrendingInit ==
    [pc |-> "fetching", requests |-> 1, isLoading |-> TRUE, stocks |-> <<>>,
     selectedStock |-> NoStock, fetched |-> <<>>, failed |-> FALSE,
     outcome |-> NetworkError, body |-> ApiResponse(FALSE, FALSE, FALSE, <<>>),
     history |-> <<NoTicker>>, index |-> 1, currentIndex |-> 0]

TP_Response(o) ==
    /\ tp.pc = "fetching"
    /\ tp' = [tp EXCEPT !.pc = TrendingOnResponse(o).pc,
                        !.fetched = TrendingOnResponse(o).fetched,
                        !.failed = TrendingOnResponse(o).failed,
                        !.outcome = o]
    /\ UNCHANGED <<bfVars, chatVars, sp, sd>>

TP_Json(body) ==
    /\ tp.pc = "json"
    /\ tp' = [tp EXCEPT !.pc = TrendingOnJson(body).pc,
                        !.fetched = TrendingOnJson(body).fetched,
                        !.failed = TrendingOnJson(body).failed,
                        !.body = body]
    /\ UNCHANGED <<bfVars, chatVars, sp, sd>>

\* fetchData after its await: setStocks(fetchedStocks); setIsLoading(false);
\* a rejection of getTrendingStocks ends fetchData at the await
TP_Resume ==
    /\ tp.pc \in {"resolved", "rejected"}
    /\ tp' = IF tp.pc = "resolved"
             THEN [tp EXCEPT !.pc = "done", !.stocks = tp.fetched,
                             !.isLoading = FALSE]
             ELSE [tp EXCEPT !.pc = "aborted"]
    /\ UNCHANGED <<bfVars, chatVars, sp, sd>>

\* which of the three returns of TrendingPageClient renders
TrendingView(page) ==
    IF page.isLoading THEN "loading"
    ELSE IF page.selectedStock # NoStock THEN "details"
    ELSE IF Len(page.stocks) > 0 THEN "list"
    ELSE "no-data"

\* Array.prototype.slice(start, end) and slice(start), start and end >= 0
Slice(array, start, end) ==
    SubSeq(array, start + 1, IF end < Len(array) THEN end ELSE Len(array))

SliceFrom(array, start) == SubSeq(array, start + 1, Len(array))

\* const top5Stocks = stocks.slice(0, 5)
Top5Stocks(stocks) == Slice(stocks, 0, TopCount)

RemainingStocksFromFour(stocks) == SliceFrom(stocks, TopCount - 1)

\* const remainingStocks = stocks.slice(5)
RemainingStocks(stocks) == SliceFrom(stocks, TopCount)

\* the n of "Trending List (Rank {top5Stocks.length + 1} onwards)"
GridHeadingRank(stocks) == Len(Top5Stocks(stocks)) + 1

\* StockSlideshowClient: const slides = stocks.slice(0, 5) of its stocks prop
Slides(stocks) == Slice(Top5Stocks(stocks), 0, TopCount)

NextIndexNoWrap(prevIndex, length) == prevIndex + 1

\* (prevIndex + 1) % slides.length
NextIndex(prevIndex, length) == (prevIndex + 1) % length

\* (prevIndex - 1 + slides.length) % slides.length
PrevIndex(prevIndex, length) == (prevIndex - 1 + length) % length

\* the slideshow is rendered: the list view with top5Stocks.length > 0
SlideshowMounted(page) ==
    TrendingView(page) = "list" /\ Len(Top5Stocks(page.stocks)) > 0

\* the setInterval callback, set up only if (slides.length > 1)
SS_AutoPlay ==
    /\ SlideshowMounted(tp)
    /\ Len(Slides(tp.stocks)) > 1
    /\ tp' = [tp EXCEPT !.currentIndex = NextIndex(@, Len(Slides(tp.stocks)))]
    /\ UNCHANGED <<bfVars, chatVars, sp, sd>>

\* goToPrev; the button is rendered when slides.length > 1
SS_GoToPrev ==
    /\ SlideshowMounted(tp)
    /\ Len(Slides(tp.stocks)) > 1
    /\ tp' = [tp EXCEPT !.currentIndex = PrevIndex(@, Len(Slides(tp.stocks)))]
    /\ UNCHANGED <<bfVars, chatVars, sp, sd>>

\* goToNext; the button is rendered when slides.length > 1
SS_GoToNext ==
    /\ SlideshowMounted(tp)
    /\ Len(Slides(tp.stocks)) > 1
    /\ tp' = [tp EXCEPT !.currentIndex = NextIndex(@, Len(Slides(tp.stocks)))]
    /\ UNCHANGED <<bfVars, chatVars, sp, sd>>

\* an indicator button: setCurrentIndex(index)
SS_Indicator(index) ==
    /\ SlideshowMounted(tp)
    /\ index \in 0..(Len(Slides(tp.stocks)) - 1)
    /\ index # tp.currentIndex
    /\ tp' = [tp EXCEPT !.currentIndex = index]
    /\ UNCHANGED <<bfVars, chatVars, sp, sd>>

\* window.history.pushState: entries after the current one are dropped
PushState(page, stockTicker) ==
    [page EXCEPT !.history = Append(SubSeq(page.history, 1, page.index), stockTicker),
                 !.index = page.index + 1]

\* handlePopState: if (!event.state || !event.state.stockTicker)
\*                   setSelectedStock(null)
HandlePopState(page, stockTicker) ==
    IF stockTicker = NoTicker
    THEN [page EXCEPT !.selectedStock = NoStock]
    ELSE page

\* a traversal of the session history by delta, and its popstate event
Traverse(page, delta) ==
    HandlePopState([page EXCEPT !.index = page.index + delta],
                   page.history[page.index + delta])

\* handleViewDetail, from a slide or a grid item of the list view
TP_ViewDetail(i) ==
    /\ TrendingView(tp) = "list"
    /\ i \in DOMAIN tp.stocks
    /\ tp.index < MaxHistory
    /\ tp' = PushState([tp EXCEPT !.selectedStock = tp.stocks[i],
                                  !.currentIndex = 0],
                       tp.stocks[i].ticker)
    /\ UNCHANGED <<bfVars, chatVars, sp, sd>>

\* handleBackToList, the onBack of StockDetails: setSelectedStock(null) and
\* window.history.back(), taken with the popstate event it causes
TP_BackToList ==
    /\ TrendingView(tp) = "details"
    /\ tp.index > 1
    /\ tp' = Traverse([tp EXCEPT !.selectedStock = NoStock], -1)
    /\ UNCHANGED <<bfVars, chatVars, sp, sd>>

\* the browser's Back button, within the entries of this page
TP_BrowserBack ==
    /\ tp.index > 1
    /\ tp' = Traverse(tp, -1)
    /\ UNCHANGED <<bfVars, chatVars, sp, sd>>

\* the browser's Forward button
TP_BrowserForward ==
    /\ tp.index < Len(tp.history)
    /\ tp' = Traverse(tp, 1)
    /\ UNCHANGED <<bfVars, chatVars, sp, sd>>

----------------------------------------------------------------------------
(* Full-analysis data: GET /api/full-analysis/:ticker                      *)

Timeframes == {"1 Day", "1 Week", "6 Months", "1 Year", "5 Year"}

\* historical_data: per timeframe, a list of points ("points"), an empty
\* list ("empty"), or no entry at all ("missing")
CompleteHistory == [tf \in Timeframes |-> "points"]

NoHistory == [tf \in Timeframes |-> "missing"]

Historicals ==
    { CompleteHistory,
      [CompleteHistory EXCEPT !["1 Day"] = "missing"],
      [CompleteHistory EXCEPT !["1 Week"] = "missing", !["5 Year"] = "empty"],
      NoHistory }

\* the fields of FullAnalysisData / LiveStockDetails the views branch on;
\* ticker is the ticker of the URL the data was fetched from
Analysis(ticker, advice, reasonSummary, sentimentStatus, historicalData) ==
    [ticker |-> ticker, advice |-> advice, reasonSummary |-> reasonSummary,
     sentimentStatus |-> sentimentStatus, historicalData |-> historicalData]

\* liveDetails === null, analysisData === null
NoAnalysis == Analysis("", "", <<>>, "", NoHistory)

AnalysesFor(ticker) ==
    { Analysis(ticker, "BUY", <<"Strong", "momentum">>, "Positive", CompleteHistory),
      Analysis(ticker, "SELL", <<"Not", "enough", "data">>, "Negative",
               [CompleteHistory EXCEPT !["1 Day"] = "missing"]),
      Analysis(ticker, "HOLD", <<"Stable">>, "Neutral",
               [CompleteHistory EXCEPT !["1 Week"] = "missing", !["5 Year"] = "empty"]),
      Analysis(ticker, "HOLD", <<"Not", "enough", "data", "available">>, "Neutral",
               NoHistory) }

\* a response body: parsed is whether response.json() resolves; a parsed
\* body with data NoAnalysis is the JSON text null
AnalysisBody(parsed, data) == [parsed |-> parsed, data |-> data]

AnalysisBodies(ticker) ==
    {AnalysisBody(FALSE, NoAnalysis), AnalysisBody(TRUE, NoAnalysis)}
    \cup {AnalysisBody(TRUE, data) : data \in AnalysesFor(ticker)}

----------------------------------------------------------------------------
(* StockDetails (src/frontend/components/StockDetails.tsx)                 *)

DetailTickers == {"TCS", "INFY"}

\* one call of fetchDetails (overlaps: an earlier call was still pending when
\* it started; outcome, body: what its fetch and its response.json() gave)
DetailCall(ticker, pc, overlaps) ==
    [ticker |-> ticker, pc |-> pc, overlaps |-> overlaps,
     outcome |-> NetworkError, body |-> AnalysisBody(FALSE, NoAnalysis)]

\* some fetchDetails call of the component is at an await
DetailsPending(d) == \E i \in DOMAIN d.calls : d.calls[i].pc # "done"

\* catch (error) { console.error(...); setLiveDetails(null); }
DetailsCatch(liveDetails) == NoAnalysis

\* useState defaults and the effect for the first stock.ticker:
\* fetchDetails() sets isLoadingDetails and issues its request
DetailsInit ==
    [stock |-> "TCS", liveDetails |-> NoAnalysis, isLoadingDetails |-> TRUE,
     activeTimeframe |-> "1 Week",
     calls |-> <<DetailCall("TCS", "fetching", FALSE)>>,
     requests |-> 1]

\* which of the three returns of StockDetails renders
DetailsView(d) ==
    IF d.isLoadingDetails THEN "loading"
    ELSE IF d.liveDetails = NoAnalysis THEN "error"
    ELSE "details"

SentimentBadgeClassSwapped(sentimentStatus) ==
    IF sentimentStatus = "Positive" THEN "bg-red-100 text-red-800"
    ELSE IF sentimentStatus = "Negative" THEN "bg-green-100 text-green-800"
    ELSE "bg-yellow-100 text-yellow-800"

\* className of the sentiment badge
SentimentBadgeClass(sentimentStatus) ==
    IF sentimentStatus = "Positive" THEN "bg-green-100 text-green-800"
    ELSE IF sentimentStatus = "Negative" THEN "bg-red-100 text-red-800"
    ELSE "bg-yellow-100 text-yellow-800"

\* the chart area: liveDetails.historical_data[activeTimeframe] ? <PriceChart>
\* : <p>No chart data ...</p>, and PriceChart's own test of data.length
DetailsChart(historicalData, activeTimeframe) ==
    IF historicalData[activeTimeframe] = "missing"
    THEN "No chart data available for this timeframe."
    ELSE IF historicalData[activeTimeframe] = "empty"
    THEN "No data available for chart."
    ELSE "Line"

\* the stock prop changes: the effect on [stock.ticker] runs fetchDetails()
SD_SetStock(t) ==
    /\ t # sd.stock
    /\ Len(sd.calls) < MaxDetailFetches
    /\ sd' = [sd EXCEPT !.stock = t, !.isLoadingDetails = TRUE,
                        !.calls = Append(@, DetailCall(t, "fetching",
                                                       DetailsPending(sd))),
                        !.requests = @ + 1]
    /\ UNCHANGED <<bfVars, chatVars, tp, sp>>

\* fetch() of call i settles: a thrown error or a non-OK status runs the
\* catch and finally blocks
SD_Response(i, o) ==
    /\ i \in DOMAIN sd.calls
    /\ sd.calls[i].pc = "fetching"
    /\ sd' = IF o.thrown \/ ~ResponseOk(o)
             THEN [sd EXCEPT !.calls[i].pc = "done", !.calls[i].outcome = o,
                             !.liveDetails = DetailsCatch(@),
                             !.isLoadingDetails = FALSE]
             ELSE [sd EXCEPT !.calls[i].pc = "json", !.calls[i].outcome = o]
    /\ UNCHANGED <<bfVars, chatVars, tp, sp>>

\* response.json() of call i settles: setLiveDetails(data), or the catch
\* block, and then the finally block
SD_Json(i, body) ==
    /\ i \in DOMAIN sd.calls
    /\ sd.calls[i].pc = "json"
    /\ sd' = [sd EXCEPT !.calls[i].pc = "done", !.calls[i].body = body,
                        !.liveDetails = IF body.parsed THEN body.data
                                        ELSE DetailsCatch(@),
                        !.isLoadingDetails = FALSE]
    /\ UNCHANGED <<bfVars, chatVars, tp, sp>>

\* a timeframe button of the details view
SD_SetActiveTimeframe(tf) ==
    /\ DetailsView(sd) = "details"
    /\ tf # sd.activeTimeframe
    /\ sd' = [sd EXCEPT !.activeTimeframe = tf]
    /\ UNCHANGED <<bfVars, chatVars, tp, sp>>

----------------------------------------------------------------------------
(* SingleStockSearchPage, getFullAnalysis, StockDetailsView                *)
(* (src/frontend/app/search/page.tsx)                                      *)

\* texts the ticker field, the URL parameter and searchTicker can hold
SearchTexts == {"", "tcs", "TCS", "infy", "INFY"}

\* String.prototype.toUpperCase on SearchTexts
ToUpperCase(text) ==
    IF text = "tcs" THEN "TCS"
    ELSE IF text = "infy" THEN "INFY"
    ELSE text

\* values typed into the input, values of ?ticker= at load ("" is absent)
TypedValues == {"", "infy"}

UrlTickers == {"", "tcs"}

NoError == <<>>

EmptyTickerError == <<"Please enter a stock ticker (e.g., RELIANCE).">>

LoadError(searchTicker) ==
    <<"Failed to load data for ", searchTicker, ". Check the ticker or try again.">>

NotEnoughData == <<"Not", "enough", "data">>

HandleSearchNoEmptyTest(page, searchTicker) ==
    [page EXCEPT !.isLoading = TRUE, !.error = NoError,
                 !.pushes = @ + 1, !.requests = @ + 1]

DataNotFoundAnyHold(result) == result.advice = "HOLD"

\* result.advice === "HOLD" && result.reason_summary.includes("Not enough data")
DataNotFound(result) ==
    result.advice = "HOLD" /\ Includes(result.reasonSummary, NotEnoughData)

\* how the promise of getFullAnalysis settles
AnalysisSettled(resolved, data) == [resolved |-> resolved, data |-> data]

GetFullAnalysisCatchRethrows == AnalysisSettled(FALSE, NoAnalysis)

\* catch (error) { console.error(...); return null; }
GetFullAnalysisCatch == AnalysisSettled(TRUE, NoAnalysis)

\* getFullAnalysis after response.json() settled
GetFullAnalysisOnJson(body) ==
    IF ~body.parsed THEN GetFullAnalysisCatch
    ELSE IF DataNotFound(body.data) THEN GetFullAnalysisCatch
    ELSE AnalysisSettled(TRUE, body.data)

\* one call of handleSearch that passed the empty-ticker test
\* (overlaps: an earlier call was still awaiting when it started; failed: its
\* fetch threw or had a non-OK status; body: what response.json() gave;
\* resolved, data: how its getFullAnalysis promise settled)
SearchCall(searchTicker, pc, overlaps, failed, resolved, data) ==
    [searchTicker |-> searchTicker, pc |-> pc, overlaps |-> overlaps,
     failed |-> failed, body |-> AnalysisBody(FALSE, NoAnalysis),
     resolved |-> resolved, data |-> data]

\* some handleSearch call of the page is at its await
Awaiting(page) == \E i \in DOMAIN page.calls : page.calls[i].pc # "done"

\* useState defaults of SingleStockSearchPage, before its mount effect; the
\* view fields are the state of StockDetailsView, which is mounted exactly
\* while analysisData is non-null
SearchInit ==
    [mounted |-> FALSE, ticker |-> "", analysisData |-> NoAnalysis,
     isLoading |-> FALSE, error |-> NoError,
     viewData |-> NoAnalysis, activeTimeframe |-> "1 Day", crashed |-> FALSE,
     calls |-> <<>>, requests |-> 0, pushes |-> 0]

\* chartData of StockDetailsView:
\* analysisData?.historical_data[activeTimeframe].map(...) throws a TypeError
\* when the entry is undefined
ViewThrows(viewData, activeTimeframe) ==
    viewData # NoAnalysis /\ viewData.historicalData[activeTimeframe] = "missing"

\* the render that follows a state update: {analysisData && <StockDetailsView
\* data={analysisData} />} mounts the view with useState(data) and '1 Day',
\* keeps the state of a view that stays mounted, and drops it on unmount
Render(old, new) ==
    LET viewed ==
            IF new.analysisData = NoAnalysis
            THEN [new EXCEPT !.viewData = NoAnalysis, !.activeTimeframe = "1 Day"]
            ELSE IF old.analysisData = NoAnalysis
            THEN [new EXCEPT !.viewData = new.analysisData, !.activeTimeframe = "1 Day"]
            ELSE new
    IN [viewed EXCEPT !.crashed = ViewThrows(viewed.viewData, viewed.activeTimeframe)]

\* handleSearch up to its await
HandleSearch(page, searchTicker) ==
    IF searchTicker = ""
    THEN [page EXCEPT !.error = EmptyTickerError]
    ELSE Render(page,
                [page EXCEPT !.isLoading = TRUE, !.error = NoError,
                             !.analysisData = NoAnalysis,
                             !.pushes = @ + 1, !.requests = @ + 1,
                             !.calls = Append(@, SearchCall(searchTicker, "fetching",
                                                            Awaiting(page), FALSE,
                                                            FALSE, NoAnalysis))])

\* handleSearch of call i after await getFullAnalysis(...)
HandleSearchResume(page, i, failed, settled) ==
    LET done == [page EXCEPT !.calls[i].pc = "done", !.calls[i].failed = failed,
                             !.calls[i].resolved = settled.resolved,
                             !.calls[i].data = settled.data]
    IN IF ~settled.resolved THEN done
       ELSE IF settled.data # NoAnalysis
       THEN Render(page, [done EXCEPT !.analysisData = settled.data,
                                      !.isLoading = FALSE])
       ELSE [done EXCEPT !.error = LoadError(page.calls[i].searchTicker),
                         !.isLoading = FALSE]

SearchAlive == sp.mounted /\ ~sp.crashed

\* the handlers enumerate searches up to MaxSearches
CanSearch(searchTicker) == searchTicker = "" \/ Len(sp.calls) < MaxSearches

\* the mount effect: search automatically if the URL contains a ticker
SP_Mount(tickerFromUrl) ==
    /\ ~sp.mounted
    /\ sp' = IF tickerFromUrl # ""
             THEN HandleSearch([sp EXCEPT !.mounted = TRUE, !.ticker = tickerFromUrl],
                               tickerFromUrl)
             ELSE [sp EXCEPT !.mounted = TRUE]
    /\ UNCHANGED <<bfVars, chatVars, tp, sd>>

\* onChange of the input, rendered while analysisData is null
SP_SetTicker(value) ==
    /\ SearchAlive
    /\ sp.analysisData = NoAnalysis
    /\ ToUpperCase(value) # sp.ticker
    /\ sp' = [sp EXCEPT !.ticker = ToUpperCase(value)]
    /\ UNCHANGED <<bfVars, chatVars, tp, sd>>

\* onKeyDown of the input: e.key === 'Enter' && handleSearch(ticker)
SP_PressEnter ==
    /\ SearchAlive
    /\ sp.analysisData = NoAnalysis
    /\ CanSearch(sp.ticker)
    /\ sp' = HandleSearch(sp, sp.ticker)
    /\ UNCHANGED <<bfVars, chatVars, tp, sd>>

\* onClick of the search button, disabled={isLoading}
SP_ClickSearch ==
    /\ SearchAlive
    /\ sp.analysisData = NoAnalysis
    /\ ~sp.isLoading
    /\ CanSearch(sp.ticker)
    /\ sp' = HandleSearch(sp, sp.ticker)
    /\ UNCHANGED <<bfVars, chatVars, tp, sd>>

\* fetch() of call i settles: a thrown error or a non-OK status goes to the
\* catch block of getFullAnalysis, and handleSearch resumes
SP_Response(i, o) ==
    /\ SearchAlive
    /\ i \in DOMAIN sp.calls
    /\ sp.calls[i].pc = "fetching"
    /\ sp' = IF o.thrown \/ ~ResponseOk(o)
             THEN HandleSearchResume(sp, i, TRUE, GetFullAnalysisCatch)
             ELSE [sp EXCEPT !.calls[i].pc = "json"]
    /\ UNCHANGED <<bfVars, chatVars, tp, sd>>

\* response.json() of call i settles, and handleSearch resumes
SP_Json(i, body) ==
    /\ SearchAlive
    /\ i \in DOMAIN sp.calls
    /\ sp.calls[i].pc = "json"
    /\ sp' = HandleSearchResume([sp EXCEPT !.calls[i].body = body], i, FALSE,
                                GetFullAnalysisOnJson(body))
    /\ UNCHANGED <<bfVars, chatVars, tp, sd>>

\* handleBack: "New Search" in the header and onBack of the view
SP_HandleBack ==
    /\ SearchAlive
    /\ sp.analysisData # NoAnalysis
    /\ sp' = Render(sp, [sp EXCEPT !.analysisData = NoAnalysis, !.error = NoError,
                                   !.ticker = "", !.pushes = @ + 1])
    /\ UNCHANGED <<bfVars, chatVars, tp, sd>>

\* a timeframe button of StockDetailsView
SP_SetActiveTimeframe(tf) ==
    /\ SearchAlive
    /\ sp.analysisData # NoAnalysis
    /\ tf # sp.activeTimeframe
    /\ sp' = Render(sp, [sp EXCEPT !.activeTimeframe = tf])
    /\ UNCHANGED <<bfVars, chatVars, tp, sd>>

Init ==
    /\ bf = IdleFrame
    /\ outcomes = <<>>
    /\ chatHistory = <<WelcomeMessage>>
    /\ input = <<>>
    /\ isLoading = FALSE
    /\ hs = IdleSubmit
    /\ cg = IdleGemini
    /\ tp = TrendingInit
    /\ sp = SearchInit
    /\ sd = DetailsInit

----------------------------------------------------------------------------
(* Specifications *)

MaxRetriesValues == (0..MaxRetriesBound) \cup {DefaultMaxRetries}

\* direct calls of the wrapper with every maximum attempt count
Next ==
    \/ \E m \in MaxRetriesValues : BF_Call(m)
    \/ BF_Loop
    \/ \E o \in Outcomes : BF_Settle(o)
    \/ BF_WaitDone

Spec == Init /\ [][Next]_vars

\* every request settles, timers fire and continuations run
FairSpec == Spec /\ WF_vars(BF_Step)

\* the chat page
NextChat ==
    \/ \E v \in InputValues : SetInput(v)
    \/ HandleSubmit
    \/ BF_Loop
    \/ \E o \in Outcomes : BF_Settle(o)
    \/ BF_WaitDone
    \/ \E body \in Bodies : CG_Json(body)
    \/ CG_Catch
    \/ HS_Resume

SpecChat == Init /\ [][NextChat]_vars

FairSpecChat ==
    /\ SpecChat
    /\ WF_vars(BF_Step)
    /\ WF_vars(\E body \in Bodies : CG_Json(body))
    /\ WF_vars(CG_Catch)
    /\ WF_vars(HS_Resume)

\* the trending page
NextTrending ==
    \/ \E o \in Outcomes : TP_Response(o)
    \/ \E body \in ApiResponses : TP_Json(body)
    \/ TP_Resume
    \/ \E i \in 1..MaxStocks : TP_ViewDetail(i)
    \/ TP_BackToList
    \/ TP_BrowserBack
    \/ TP_BrowserForward
    \/ SS_AutoPlay
    \/ SS_GoToPrev
    \/ SS_GoToNext
    \/ \E index \in 0..(TopCount - 1) : SS_Indicator(index)

SpecTrending == Init /\ [][NextTrending]_vars

\* the response and its body settle, and fetchData is resumed
FairSpecTrending ==
    /\ SpecTrending
    /\ WF_vars(\E o \in Outcomes : TP_Response(o))
    /\ WF_vars(\E body \in ApiResponses : TP_Json(body))
    /\ WF_vars(TP_Resume)

\* the search page
NextSearch ==
    \/ \E tickerFromUrl \in UrlTickers : SP_Mount(tickerFromUrl)
    \/ \E value \in TypedValues : SP_SetTicker(value)
    \/ SP_PressEnter
    \/ SP_ClickSearch
    \/ \E i \in DOMAIN sp.calls, o \in Outcomes : SP_Response(i, o)
    \/ \E i \in DOMAIN sp.calls :
          \E body \in AnalysisBodies(ToUpperCase(sp.calls[i].searchTicker)) :
              SP_Json(i, body)
    \/ SP_HandleBack
    \/ \E tf \in Timeframes : SP_SetActiveTimeframe(tf)

SpecSearch == Init /\ [][NextSearch]_vars

\* the StockDetails component
NextDetails ==
    \/ \E t \in DetailTickers : SD_SetStock(t)
    \/ \E i \in DOMAIN sd.calls, o \in Outcomes : SD_Response(i, o)
    \/ \E i \in DOMAIN sd.calls :
          \E body \in AnalysisBodies(sd.calls[i].ticker) : SD_Json(i, body)
    \/ \E tf \in Timeframes : SD_SetActiveTimeframe(tf)

SpecDetails == Init /\ [][NextDetails]_vars

----------------------------------------------------------------------------
(* Properties of exponentialBackoffFetch *)

RECURSIVE Sum(_)
Sum(s) == IF s = <<>> THEN 0 ELSE Head(s) + Sum(Tail(s))

RateLimited == HttpResponse(TooManyRequests)

Success == HttpResponse(200)

\* a response whose status is a 2xx status
IsOkResponse(o) == ~o.thrown /\ o.status >= 200 /\ o.status <= 299

\* N rate-limited responses followed by one successful response
LimitedThenSuccess(N) == [i \in 1..(N + 1) |-> IF i <= N THEN RateLimited ELSE Success]

AllRateLimited == \A i \in DOMAIN outcomes : outcomes[i] = RateLimited

NoneOk == \A i \in DOMAIN outcomes : ~IsOkResponse(outcomes[i])

\* C1: a call with maximum attempt count m issues at most m requests,
\* whatever the outcomes of its requests are.
C1_AtMostMaxRetries ==
    /\ bf.requests <= bf.maxRetries
    /\ bf.requests = Len(outcomes) + (IF bf.pc = "fetching" THEN 1 ELSE 0)

C1_Witness ==
    /\ bf.pc = "failed"
    /\ bf.maxRetries = 3
    /\ bf.requests = 3
    /\ outcomes = <<RateLimited, NetworkError, HttpResponse(500)>>

\* C2: a non-success status other than 429 makes the call fail on that
\* attempt, with no further request and no wait after it.
C2_OtherStatusFailsImmediately ==
    \A i \in DOMAIN outcomes :
        (~outcomes[i].thrown /\ ~IsOkResponse(outcomes[i])
            /\ outcomes[i].status # TooManyRequests)
        => /\ bf.pc = "failed"
           /\ bf.requests = i
           /\ Len(bf.waits) < i

\* C3: after a 429 with attempts remaining the call waits and then issues
\* another request; the wait before the k-th retry is 1000 * 2^(k-1) ms.
C3_BackoffDoubles ==
    /\ \A k \in DOMAIN bf.waits : bf.waits[k] = InitialDelay * 2^(k - 1)
    /\ bf.pc = "fetching" => Len(bf.waits) = bf.requests - 1
    /\ \A i \in DOMAIN outcomes :
          (outcomes[i] = RateLimited /\ i < bf.maxRetries)
          => /\ Len(bf.waits) >= i
             /\ \/ bf.requests >= i + 1
                \/ bf.pc \in {"waiting", "loop"} /\ Len(bf.waits) = i

C3_Witness ==
    /\ bf.pc = "fetching"
    /\ outcomes = <<RateLimited, RateLimited, RateLimited>>
    /\ bf.waits = <<1000, 2000, 4000>>
    /\ bf.requests = 4

\* C4: with m >= 1 (5 by default) and a 429 on every request, the call
\* issues exactly m requests and then fails.
C4_PersistentRateLimit ==
    (bf.pc # "idle" /\ bf.maxRetries >= 1 /\ AllRateLimited)
    => /\ bf.pc # "returned"
       /\ bf.pc = "failed" <=> Len(outcomes) = bf.maxRetries
       /\ bf.pc = "failed" => bf.requests = bf.maxRetries

C4_Witness ==
    /\ bf.pc = "failed"
    /\ bf.maxRetries = DefaultMaxRetries
    /\ AllRateLimited
    /\ bf.requests = 5

\* C5: N 429 responses (0 <= N < maxRetries) followed by a success: the
\* call returns after N+1 requests having waited 1000 * (2^N - 1) ms in all.
C5_SuccessAfterRateLimits ==
    \A N \in 0..(bf.maxRetries - 1) :
        outcomes = LimitedThenSuccess(N)
        => /\ bf.pc = "returned"
           /\ bf.requests = N + 1
           /\ Len(bf.waits) = N
           /\ Sum(bf.waits) = InitialDelay * (2^N - 1)

C5_Witness ==
    /\ bf.pc = "returned"
    /\ outcomes = LimitedThenSuccess(3)
    /\ Sum(bf.waits) = 7000

\* C6 as stated: when every attempt fails, the waits of the call add up to
\* 1000 * (2^maxRetries - 1) ms.
C6_WorstCaseWaitAsStated ==
    (bf.pc = "failed" /\ Len(outcomes) = bf.maxRetries)
    => Sum(bf.waits) = InitialDelay * (2^bf.maxRetries - 1)

\* C6 (amended): for maxRetries m >= 1 the waits of a call never add up to
\* more than 1000 * (2^(m-1) - 1) ms, and add up to exactly that when every
\* attempt fails: no wait follows the last attempt.
C6_WorstCaseWait ==
    bf.maxRetries >= 1
    => /\ Sum(bf.waits) <= InitialDelay * (2^(bf.maxRetries - 1) - 1)
       /\ (bf.pc = "failed" /\ Len(outcomes) = bf.maxRetries)
          => Sum(bf.waits) = InitialDelay * (2^(bf.maxRetries - 1) - 1)

C6_Witness ==
    /\ bf.pc = "failed"
    /\ bf.maxRetries = 4
    /\ Len(outcomes) = 4
    /\ Sum(bf.waits) = 7000

\* C7: a thrown network error is handled like a 429: replacing any 429 of
\* the outcome sequence by a network error changes neither the number of
\* requests nor the sequence of waits (nor whether the call has ended).
C7_NetworkErrorLike429 ==
    bf.pc # "idle"
    => LET actual == Run(EntryFrame(bf.maxRetries), outcomes) IN
       /\ Run(bf, <<>>) = actual
       /\ \A i \in DOMAIN outcomes :
             outcomes[i] = RateLimited
             => LET r == Run(EntryFrame(bf.maxRetries),
                             [outcomes EXCEPT ![i] = NetworkError]) IN
                /\ r.requests = actual.requests
                /\ r.waits = actual.waits
                /\ r.pc = actual.pc

C7_Witness ==
    /\ bf.pc = "waiting"
    /\ outcomes = <<RateLimited, NetworkError, RateLimited>>
    /\ bf.waits = <<1000, 2000, 4000>>

Exhausted == bf.pc # "idle" /\ Len(outcomes) = bf.maxRetries /\ NoneOk

\* C8: provided every request settles, a call ends, either returning a
\* successful response or failing with an error; with its attempts
\* exhausted it fails, and a response it returns is never a non-ok one.
C8_Terminates ==
    /\ (bf.pc # "idle") ~> Terminal(bf)
    /\ Exhausted ~> (bf.pc = "failed")
    /\ [](bf.pc = "returned"
            => outcomes # <<>> /\ IsOkResponse(outcomes[Len(outcomes)]))
    /\ [](bf.pc = "failed" <=> bf.error # "none")
    /\ [][Terminal(bf) => bf' = bf]_vars

C8_Witness ==
    /\ bf.pc = "returned"
    /\ bf.maxRetries = 2
    /\ outcomes = <<NetworkError, Success>>

----------------------------------------------------------------------------
(* Properties of callGeminiAPI and ChatPage.handleSubmit *)

Last(s) == s[Len(s)]

FetchFailed == cg.pc = "fetching" /\ bf.pc = "failed"

\* C9: when exponentialBackoffFetch fails inside callGeminiAPI, the call
\* resolves (never rejects) with a model message carrying the error text,
\* handleSubmit appends exactly that message after the user's message and
\* clears isLoading, and the submit completes.
C9_FetchFailureSurfaced ==
    /\ [](cg.pc # "rejected")
    /\ [][FetchFailed
          => /\ cg'.pc = "resolved"
             /\ cg'.message = Message("model", NetworkErrorText(bf.error), FALSE, <<>>)
             /\ UNCHANGED <<chatHistory, isLoading>>]_vars
    /\ [][(hs.pc = "awaiting" /\ cg.pc = "resolved")
          => /\ Last(chatHistory) = Message("user", hs.trimmedInput, FALSE, <<>>)
             /\ chatHistory' = Append(chatHistory, cg.message)
             /\ isLoading /\ ~isLoading'
             /\ hs'.pc = "idle"]_vars
    /\ FetchFailed ~> (hs.pc = "idle" /\ ~isLoading)

C9_Witness ==
    /\ hs.pc = "idle"
    /\ ~isLoading
    /\ Len(chatHistory) = 3
    /\ chatHistory[2] = Message("user", <<"b">>, FALSE, <<>>)
    /\ chatHistory[3] = Message("model", NetworkErrorText("API error"), FALSE, <<>>)

\* the body of a successful response has no first candidate text
NoFirstCandidateText(body) ==
    \/ ~body.parsed
    \/ ~body.isObject
    \/ body.candidates = <<>>
    \/ body.candidates[1].text = <<>>

\* the first candidate's finishMessage contains "Malformed function call"
SaysMalformed(body) ==
    /\ body.candidates # <<>>
    /\ \E i \in 1..Len(body.candidates[1].finishMessage) :
          /\ i + 2 <= Len(body.candidates[1].finishMessage)
          /\ body.candidates[1].finishMessage[i] = "Malformed"
          /\ body.candidates[1].finishMessage[i + 1] = "function"
          /\ body.candidates[1].finishMessage[i + 2] = "call"

FixedErrorMessage(body) ==
    Message("model", IF SaysMalformed(body) THEN ApologyText ELSE FallbackText,
            FALSE, <<>>)

----------------------------------------------------------------------------
(* Properties of the trending page *)

\* getTrendingStocks has settled on a successful response with success set
TrendingSucceeded ==
    /\ tp.pc \in {"resolved", "rejected", "done", "aborted"}
    /\ IsOkResponse(tp.outcome)
    /\ tp.body.parsed
    /\ tp.body.success

\* getTrendingStocks has settled on a thrown error, a non-OK status, or a
\* body that does not parse or has success = false
TrendingFailed ==
    /\ tp.pc \in {"resolved", "rejected", "done", "aborted"}
    /\ \/ tp.outcome.thrown
       \/ ~IsOkResponse(tp.outcome)
       \/ ~tp.body.parsed
       \/ ~tp.body.success

\* C11: for a response list of K stocks getTrendingStocks returns K stocks in
\* the same order, the stock at 0-based position i with rank i+1, so the
\* ranks are exactly 1..K; a missing results field yields the empty list.
C11_RanksFollowOrder ==
    TrendingSucceeded
    => /\ tp.pc \in {"resolved", "done"}
       /\ Len(tp.fetched) = Len(tp.body.results)
       /\ \A i \in DOMAIN tp.fetched :
             /\ tp.fetched[i].ticker = tp.body.results[i].ticker
             /\ tp.fetched[i].rank = (i - 1) + 1
       /\ {tp.fetched[i].rank : i \in DOMAIN tp.fetched} = 1..Len(tp.body.results)
       /\ ~tp.body.hasResults => tp.fetched = <<>>
       /\ tp.pc = "done" => tp.stocks = tp.fetched

C11_Witness ==
    /\ tp.pc = "done"
    /\ tp.body.results = <<TrendingStock("INFY"), TrendingStock("RELIANCE"),
                           TrendingStock("INFY")>>
    /\ tp.stocks = <<RankedTrendingStock("INFY", 1), RankedTrendingStock("RELIANCE", 2),
                     RankedTrendingStock("INFY", 3)>>

\* C13: every failure of the trending fetch is caught: one request and no
\* retry, getTrendingStocks resolves to the empty list, and the page ends
\* with isLoading = false showing the no-data state.
C13_TrendingFailureCaught ==
    /\ [](tp.requests = 1)
    /\ [](TrendingFailed
            => /\ tp.pc \in {"resolved", "done"}
               /\ tp.fetched = <<>>
               /\ tp.pc = "done"
                  => /\ tp.stocks = <<>>
                     /\ ~tp.isLoading
                     /\ TrendingView(tp) = "no-data")
    /\ TrendingFailed ~> (tp.pc = "done" /\ ~tp.isLoading)

C13_Witness ==
    /\ tp.pc = "done"
    /\ tp.outcome = Success
    /\ tp.body = ApiResponse(TRUE, FALSE, TRUE, PoolPrefix(2))
    /\ tp.stocks = <<>>
    /\ TrendingView(tp) = "no-data"

----------------------------------------------------------------------------
(* Properties of StockDetails *)

\* C12: the sentiment badge of the details view is green for "Positive",
\* red for "Negative" and yellow for "Neutral".
C12_SentimentBadge ==
    DetailsView(sd) = "details"
    => LET badge == SentimentBadgeClass(sd.liveDetails.sentimentStatus) IN
       /\ sd.liveDetails.sentimentStatus = "Positive"
          => badge = "bg-green-100 text-green-800"
       /\ sd.liveDetails.sentimentStatus = "Negative"
          => badge = "bg-red-100 text-red-800"
       /\ sd.liveDetails.sentimentStatus = "Neutral"
          => badge = "bg-yellow-100 text-yellow-800"

C12_Witness ==
    /\ DetailsView(sd) = "details"
    /\ sd.liveDetails.sentimentStatus = "Negative"
    /\ SentimentBadgeClass(sd.liveDetails.sentimentStatus) = "bg-red-100 text-red-800"

----------------------------------------------------------------------------
(* Properties of the search page *)

SearchInFlight == Awaiting(sp)

\* C14: a failed full-analysis fetch (thrown error or non-OK status) is
\* caught: one request, getFullAnalysis resolves to null, and a single
\* handleSearch ends with isLoading false, no data and an error message.
C14_SearchFailureCaught ==
    (/\ Len(sp.calls) = 1
     /\ sp.calls[1].pc = "done"
     /\ sp.calls[1].failed)
    => /\ sp.requests = 1
       /\ sp.calls[1].resolved
       /\ sp.calls[1].data = NoAnalysis
       /\ ~sp.isLoading
       /\ sp.analysisData = NoAnalysis
       /\ sp.error # NoError

C14_Witness ==
    /\ Len(sp.calls) = 1
    /\ sp.calls[1].pc = "done"
    /\ sp.calls[1].failed
    /\ sp.error = LoadError("tcs")
    /\ ~sp.isLoading

\* StockDetails with no entry for the active timeframe
DetailsChartMissing ==
    /\ DetailsView(sd) = "details"
    /\ sd.liveDetails.historicalData[sd.activeTimeframe] = "missing"

\* StockDetailsView with no entry for the active timeframe
ViewChartMissing ==
    /\ sp.viewData # NoAnalysis
    /\ sp.viewData.historicalData[sp.activeTimeframe] = "missing"

\* C15: when historical_data has no entry for the active timeframe, both
\* detail views render an empty chart state and neither throws.
C15_MissingChartDataNeverThrows ==
    /\ DetailsChartMissing
       => DetailsChart(sd.liveDetails.historicalData, sd.activeTimeframe)
            = "No chart data available for this timeframe."
    /\ ViewChartMissing => ~sp.crashed

\* the half of C15 about StockDetails, which holds
DetailsChartDegrades ==
    DetailsChartMissing
    => DetailsChart(sd.liveDetails.historicalData, sd.activeTimeframe)
         = "No chart data available for this timeframe."

\* C16: isLoading is true exactly while a request started by handleSearch
\* is in flight.
C16_LoadingWhileInFlight == sp.isLoading <=> SearchInFlight

\* C17: error and analysisData are never both non-null.
C17_ErrorXorData == ~(sp.error # NoError /\ sp.analysisData # NoAnalysis)

\* searches for different tickers A and B started in that order, B while A
\* was in flight, both settled with data, and a view on display
BothSettled ==
    /\ Len(sp.calls) = 2
    /\ sp.calls[2].overlaps
    /\ ToUpperCase(sp.calls[1].searchTicker) # ToUpperCase(sp.calls[2].searchTicker)
    /\ \A i \in 1..2 : sp.calls[i].pc = "done" /\ sp.calls[i].data # NoAnalysis
    /\ sp.viewData # NoAnalysis
    /\ ~sp.crashed

\* C18: after two overlapping searches A then B have both settled, the
\* analysis displayed is the one fetched for B, under ticker B.
C18_LastSearchDisplayed ==
    BothSettled
    => /\ sp.viewData = sp.calls[2].data
       /\ ToUpperCase(sp.ticker) = ToUpperCase(sp.calls[2].searchTicker)

----------------------------------------------------------------------------
(* Properties of the chat page: submits and payload *)

\* the welcome message, then user and model messages in turn
Alternating(history) ==
    /\ Len(history) >= 1
    /\ history[1] = WelcomeMessage
    /\ \A i \in 2..Len(history) :
          history[i].role = (IF i % 2 = 0 THEN "user" ELSE "model")

\* a step that appends a user message or starts a request
SubmitAccepted ==
    \/ Len(chatHistory') > Len(chatHistory) /\ Last(chatHistory').role = "user"
    \/ cg.pc # "fetching" /\ cg'.pc = "fetching"
    \/ bf' # bf /\ bf'.pc = "entry"

\* C19: at most one AI request is in flight (a submit while loading or with
\* blank input changes nothing), and the transcript is the welcome message
\* followed by alternating user and model messages.
C19_OneRequestAlternating ==
    /\ [](/\ Alternating(chatHistory)
          /\ (hs.pc = "awaiting") <=> (Len(chatHistory) % 2 = 0)
          /\ (hs.pc = "awaiting") <=> isLoading
          /\ bf.pc # "idle" => cg.pc = "fetching" /\ hs.pc = "awaiting")
    /\ [][SubmitAccepted
            => /\ ~isLoading
               /\ hs.pc = "idle" /\ cg.pc = "idle" /\ bf.pc = "idle"
               /\ Trim(input) # <<>>
               /\ chatHistory' = Append(chatHistory, Message("user", Trim(input), FALSE, <<>>))]_vars
    /\ [][(isLoading \/ Trim(input) = <<>>)
            => (chatHistory' = chatHistory \/ Last(chatHistory').role = "model")]_vars

C19_Witness ==
    /\ Len(chatHistory) = 5
    /\ hs.pc = "idle"
    /\ ~isLoading
    /\ chatHistory[4].role = "user"
    /\ chatHistory[5].role = "model"

\* C20: the contents sent for an accepted submit are the transcript before
\* the submit, each message once, in order, with its role, followed by the
\* new user query as last element.
C20_PayloadIsTranscriptThenQuery ==
    hs.pc = "awaiting"
    => /\ Len(cg.contents) = Len(chatHistory)
       /\ \A i \in 1..Len(cg.contents) :
             /\ cg.contents[i].role = chatHistory[i].role
             /\ cg.contents[i].text = chatHistory[i].text
       /\ Last(cg.contents) = [role |-> "user", text |-> hs.trimmedInput]
       /\ SubSeq(chatHistory, 1, Len(chatHistory) - 1) = hs.chatHistory

C20_Witness ==
    /\ hs.pc = "awaiting"
    /\ Len(cg.contents) = 4
    /\ cg.contents[2].role = "user"
    /\ cg.contents[3].role = "model"
    /\ cg.contents[4] = [role |-> "user", text |-> hs.trimmedInput]

----------------------------------------------------------------------------
(* Properties of the trending page: history and layout *)

\* stockTicker of the current history entry
CurrentTicker == tp.history[tp.index]

\* C21: a stock's detail view is displayed exactly when the current history
\* entry carries a stockTicker, and it is the detail view of that ticker.
C21_DetailFollowsHistory ==
    /\ (TrendingView(tp) = "details") <=> (CurrentTicker # NoTicker)
    /\ TrendingView(tp) = "details" => tp.selectedStock.ticker = CurrentTicker

----------------------------------------------------------------------------
(* Properties of StockDetails: prop changes and the fetch of one ticker *)

\* the details fetched by call i: null after a failure
FetchedDetails(i) ==
    IF IsOkResponse(sd.calls[i].outcome) /\ sd.calls[i].body.parsed
    THEN sd.calls[i].body.data
    ELSE NoAnalysis

\* the prop went from A to B while A's request was pending, and both
\* requests have settled
BothDetailsSettled ==
    /\ Len(sd.calls) = 2
    /\ sd.calls[2].overlaps
    /\ \A i \in 1..2 : sd.calls[i].pc = "done"

\* C22: after the prop changed from A to B with A's request in flight and
\* both requests settled, liveDetails are the details fetched for B.
C22_LastPropDisplayed ==
    BothDetailsSettled => sd.liveDetails = FetchedDetails(2)

\* a StockDetails whose ticker never changed
FixedTicker == Len(sd.calls) = 1

\* the response of call i cannot be used: the fetch threw, the status is
\* not OK, or the body does not parse to an object
DetailsUnusable(i) ==
    \/ ~IsOkResponse(sd.calls[i].outcome)
    \/ ~sd.calls[i].body.parsed
    \/ sd.calls[i].body.data = NoAnalysis

StaleDetailsShown ==
    /\ BothDetailsSettled
    /\ FetchedDetails(2) # NoAnalysis
    /\ sd.liveDetails = FetchedDetails(1)
    /\ sd.liveDetails.ticker # sd.stock

\* the elements of a list
Range(list) == {list[i] : i \in DOMAIN list}

\* the smaller of two numbers
Min(a, b) == IF a < b THEN a ELSE b

\* the list of the trending page has arrived
ListArrived == tp.pc = "done" /\ Len(tp.stocks) > 0

\* C24: every stock is in exactly one of the two areas: the slideshow holds
\* ranks 1..min(K,5), the grid ranks 6..K in order, and the grid heading
\* names the rank of the grid's first stock.
C24_SlideshowAndGrid ==
    ListArrived
    => LET K == Len(tp.stocks)
           slides == Slides(tp.stocks)
           grid == RemainingStocks(tp.stocks)
       IN /\ \A i \in 1..K :
                (tp.stocks[i] \in Range(slides)) # (tp.stocks[i] \in Range(grid))
          /\ Len(slides) = Min(K, 5)
          /\ \A i \in DOMAIN slides : slides[i] = tp.stocks[i] /\ slides[i].rank = i
          /\ Len(grid) = (IF K > 5 THEN K - 5 ELSE 0)
          /\ \A j \in DOMAIN grid : grid[j] = tp.stocks[5 + j] /\ grid[j].rank = 5 + j
          /\ grid # <<>> => GridHeadingRank(tp.stocks) = grid[1].rank

C24_Witness ==
    /\ ListArrived
    /\ Len(tp.stocks) = 7
    /\ Len(Slides(tp.stocks)) = 5
    /\ Len(RemainingStocks(tp.stocks)) = 2
    /\ GridHeadingRank(tp.stocks) = 6

\* n, the number of slides
SlideCount == Len(Slides(tp.stocks))

\* C25: currentIndex is always in 0..n-1; Next and auto-play move by +1
\* modulo n, Previous by -1 modulo n, and auto-play ticks only when n > 1.
C25_SlideIndexInRange ==
    /\ [](SlideshowMounted(tp)
            => SlideCount \in 1..5 /\ tp.currentIndex \in 0..(SlideCount - 1))
    /\ [][SS_GoToNext \/ SS_AutoPlay
            => tp'.currentIndex = (IF tp.currentIndex = SlideCount - 1 THEN 0
                                   ELSE tp.currentIndex + 1)]_vars
    /\ [][SS_GoToPrev
            => tp'.currentIndex = (IF tp.currentIndex = 0 THEN SlideCount - 1
                                   ELSE tp.currentIndex - 1)]_vars
    /\ [][SS_AutoPlay => SlideCount > 1]_vars

C25_Witness ==
    /\ SlideshowMounted(tp)
    /\ Len(Slides(tp.stocks)) = 5
    /\ tp.currentIndex = 4

----------------------------------------------------------------------------
(* Properties of the search page: empty ticker, "Not enough data" *)

\* C26: handleSearch with an empty ticker only sets the error message: no
\* request, no history entry, isLoading and analysisData unchanged.
C26_EmptyTickerOnlySetsError ==
    [][((SP_PressEnter \/ SP_ClickSearch) /\ sp.ticker = "")
         => /\ sp'.error = EmptyTickerError
            /\ sp'.requests = sp.requests
            /\ sp'.calls = sp.calls
            /\ sp'.pushes = sp.pushes
            /\ sp'.isLoading = sp.isLoading
            /\ sp'.analysisData = sp.analysisData]_vars

C26_Witness ==
    /\ sp.error = EmptyTickerError
    /\ sp.ticker = ""
    /\ sp.requests = 0
    /\ sp.pushes = 0
    /\ ~sp.isLoading

\* the body of call i has advice "HOLD" and a reason_summary that contains
\* "Not enough data"
HoldNotEnoughData(i) ==
    /\ sp.calls[i].body.data.advice = "HOLD"
    /\ \E k \in 1..Len(sp.calls[i].body.data.reasonSummary) - 2 :
          SubSeq(sp.calls[i].body.data.reasonSummary, k, k + 2)
            = <<"Not", "enough", "data">>

\* call i got a successful response with a parsed body
SearchAnswered(i) ==
    /\ sp.calls[i].pc = "done"
    /\ ~sp.calls[i].failed
    /\ sp.calls[i].body.parsed

====
